---- MODULE Spec2Model ----
(***************************************************************************)
(* Tax Document Phrase Extractor (src/main.py): the POST /analyze handler, *)
(* DocumentAnalyzer.analyze_document and its five category extractors.     *)
(*                                                                         *)
(* Strings are TLA+ strings.  A document text is kept as the sequence of   *)
(* its lines, each with the number of newline characters that follow it    *)
(* (Text below), so that a text of more than 1,000,000 characters can be   *)
(* written down: every Python operation on the text (len, strip, slicing,  *)
(* split, the regular expressions) is defined on that form.                *)
(***************************************************************************)
EXTENDS Integers, Sequences, FiniteSets, TLC

(***************************************************************************)
(* Python str operations                                                   *)
(***************************************************************************)
Min2(a, b) == IF a <= b THEN a ELSE b

Max2(a, b) == IF a >= b THEN a ELSE b

\* F(v), with v evaluated once
Bind(v, F(_)) == CHOOSE y \in {F(x) : x \in {v}} : TRUE

UpperToLower ==
  [c \in {"A","B","C","D","E","F","G","H","I","J","K","L","M",
          "N","O","P","Q","R","S","T","U","V","W","X","Y","Z"} |->
     CASE c = "A" -> "a" [] c = "B" -> "b" [] c = "C" -> "c" [] c = "D" -> "d"
       [] c = "E" -> "e" [] c = "F" -> "f" [] c = "G" -> "g" [] c = "H" -> "h"
       [] c = "I" -> "i" [] c = "J" -> "j" [] c = "K" -> "k" [] c = "L" -> "l"
       [] c = "M" -> "m" [] c = "N" -> "n" [] c = "O" -> "o" [] c = "P" -> "p"
       [] c = "Q" -> "q" [] c = "R" -> "r" [] c = "S" -> "s" [] c = "T" -> "t"
       [] c = "U" -> "u" [] c = "V" -> "v" [] c = "W" -> "w" [] c = "X" -> "x"
       [] c = "Y" -> "y" [] c = "Z" -> "z"]

LowerChar(c) == IF c \in DOMAIN UpperToLower THEN UpperToLower[c] ELSE c

\* s[i:i+1], 1-based: the character at position i, "" outside the string
At(s, i) == IF i >= 1 /\ i <= Len(s) THEN SubSeq(s, i, i) ELSE ""

\* str.lower()
RECURSIVE lower(_)
lower(s) ==
  IF Len(s) = 0 THEN ""
  ELSE IF Len(s) = 1 THEN LowerChar(s)
  ELSE LET h == Len(s) \div 2
       IN  lower(SubSeq(s, 1, h)) \o lower(SubSeq(s, h + 1, Len(s)))

\* the characters str.strip() removes and \s matches
IsSpace(c) == c \in {" ", "\t", "\n", "\r"}

IsDigit(c) == c \in {"0","1","2","3","4","5","6","7","8","9"}

IsAlpha(c) == LowerChar(c) \in {"a","b","c","d","e","f","g","h","i","j","k","l","m",
                                "n","o","p","q","r","s","t","u","v","w","x","y","z"}

\* number of leading whitespace characters of s
LeadingSpaces(s) ==
  IF \A i \in 1..Len(s) : IsSpace(At(s, i)) THEN Len(s)
  ELSE (CHOOSE i \in 1..Len(s) :
          ~IsSpace(At(s, i)) /\ \A j \in 1..(i - 1) : IsSpace(At(s, j))) - 1

\* number of trailing whitespace characters of s
TrailingSpaces(s) ==
  IF \A i \in 1..Len(s) : IsSpace(At(s, i)) THEN Len(s)
  ELSE Len(s) - (CHOOSE i \in 1..Len(s) :
                   ~IsSpace(At(s, i)) /\ \A j \in (i + 1)..Len(s) : IsSpace(At(s, j)))

\* str.strip()
strip(s) ==
  IF LeadingSpaces(s) = Len(s) THEN ""
  ELSE SubSeq(s, LeadingSpaces(s) + 1, Len(s) - TrailingSpaces(s))

\* needle in hay
Contains(hay, needle) ==
  \E i \in 1..(Len(hay) - Len(needle) + 1) :
     SubSeq(hay, i, i + Len(needle) - 1) = needle

\* hay.endswith(suffix)
endswith(hay, suffix) ==
  /\ Len(suffix) <= Len(hay)
  /\ SubSeq(hay, Len(hay) - Len(suffix) + 1, Len(hay)) = suffix

\* any(kw in s for kw in kws)
AnyIn(kws, s) == \E k \in 1..Len(kws) : Contains(s, kws[k])

\* s * n
RECURSIVE StrTimes(_, _)
StrTimes(s, n) ==
  IF n <= 0 THEN ""
  ELSE IF n = 1 THEN s
  ELSE StrTimes(s, n \div 2) \o StrTimes(s, n - (n \div 2))

\* str(n) for n >= 0
RECURSIVE str(_)
str(n) ==
  LET d == SubSeq("0123456789", (n % 10) + 1, (n % 10) + 1)
  IN  IF n < 10 THEN d ELSE str(n \div 10) \o d

\* the concatenation of the sequences f[lo], ..., f[hi]
RECURSIVE Flatten(_, _, _)
Flatten(f, lo, hi) ==
  IF lo > hi THEN << >>
  ELSE IF lo = hi THEN f[lo]
  ELSE LET m == (lo + hi) \div 2
       IN  Flatten(f, lo, m) \o Flatten(f, m + 1, hi)

\* the sum f[lo] + ... + f[hi]
RECURSIVE Sum(_, _, _)
Sum(f, lo, hi) ==
  IF lo > hi THEN 0
  ELSE IF lo = hi THEN f[lo]
  ELSE LET m == (lo + hi) \div 2
       IN  Sum(f, lo, m) + Sum(f, m + 1, hi)

(***************************************************************************)
(* Document text.  A Text is a sequence of entries [line, nl]: the         *)
(* characters of one line (no newline among them) and the number nl of     *)
(* newline characters that follow it; the text is the concatenation of     *)
(* line \o "\n" * nl over the entries.  The empty text is << >>.           *)
(***************************************************************************)
EntryLen(e) == Len(e.line) + e.nl

\* an entry all of whose characters are whitespace
BlankEntry(e) == LeadingSpaces(e.line) = Len(e.line)

\* len(text)
text_len(text) == Sum([i \in 1..Len(text) |-> EntryLen(text[i])], 1, Len(text))

\* len(text.strip())
text_strip_len(text) ==
  LET solid == {i \in 1..Len(text) : ~BlankEntry(text[i])}
  IN  IF solid = {} THEN 0
      ELSE LET first == CHOOSE i \in solid : \A j \in solid : i <= j
               last  == CHOOSE i \in solid : \A j \in solid : j <= i
           IN  Sum([i \in 1..Len(text) |-> EntryLen(text[i])], first, last)
                 - LeadingSpaces(text[first].line)
                 - TrailingSpaces(text[last].line) - text[last].nl

\* the length of the first i entries of text
entries_len(text, i) == Sum([j \in 1..Len(text) |-> EntryLen(text[j])], 1, i)

\* text[:k]
text_prefix(text, k) ==
  LET whole == Cardinality({i \in 1..Len(text) : entries_len(text, i) <= k})
      rest  == k - entries_len(text, whole)
  IN  IF k <= 0 THEN << >>
      ELSE IF whole = Len(text) \/ rest = 0 THEN SubSeq(text, 1, whole)
      ELSE LET e == text[whole + 1]
           IN  SubSeq(text, 1, whole) \o
               (IF Len(e.line) <= rest
                  THEN << [line |-> e.line, nl |-> rest - Len(e.line)] >>
                  ELSE << [line |-> SubSeq(e.line, 1, rest), nl |-> 0] >>)

\* the empty lines that the newlines after entry i of text give
blank_lines(text, i) == IF i < Len(text) THEN text[i].nl - 1 ELSE text[i].nl

\* the lines that entry i of text gives: its line, then the empty lines
entry_lines(text, i) ==
  IF blank_lines(text, i) > 0
    THEN << [line |-> text[i].line, n |-> 1],
            [line |-> "", n |-> blank_lines(text, i)] >>
    ELSE << [line |-> text[i].line, n |-> 1] >>

\* text.split('\n'), run-length encoded: [line, n] stands for n consecutive
\* elements equal to line (a run of newlines gives a run of empty lines)
split_lines(text) ==
  IF text = << >> THEN << [line |-> "", n |-> 1] >>
  ELSE Flatten([i \in 1..Len(text) |-> entry_lines(text, i)], 1, Len(text))

\* the number of lines the first i runs of a run-length encoded list stand for
lines_count(lines, i) == Sum([j \in 1..Len(lines) |-> lines[j].n], 1, i)

\* no cut of the lines
first_lines_all(lines, k) == lines

\* lines[:k] of a run-length encoded list of lines
first_lines(lines, k) ==
  LET whole == Cardinality({i \in 1..Len(lines) : lines_count(lines, i) <= k})
      rest  == k - lines_count(lines, whole)
  IN  IF k <= 0 THEN << >>
      ELSE IF whole = Len(lines) \/ rest = 0 THEN SubSeq(lines, 1, whole)
      ELSE SubSeq(lines, 1, whole) \o
           << [line |-> lines[whole + 1].line, n |-> rest] >>

\* items repeated n times (the items of n identical lines)
RECURSIVE Times(_, _)
Times(items, n) ==
  IF items = << >> \/ n <= 0 THEN << >>
  ELSE IF n = 1 THEN items
  ELSE Times(items, n \div 2) \o Times(items, n - (n \div 2))

\* the items of a line scan: scan(line) for every line, in order
LineScan(lines, scan(_)) ==
  Flatten([i \in 1..Len(lines) |-> Times(scan(lines[i].line), lines[i].n)],
          1, Len(lines))

(***************************************************************************)
(* Regular expressions of the extractors.  Each is written as the matcher  *)
(* the pattern denotes; all are used with re.IGNORECASE.                   *)
(***************************************************************************)
\* the first position >= p of s that holds no whitespace (Len(s) + 1 if none)
SkipSpaces(s, p) ==
  IF \A j \in p..Len(s) : IsSpace(At(s, j)) THEN Max2(p, Len(s) + 1)
  ELSE CHOOSE j \in p..Len(s) :
         ~IsSpace(At(s, j)) /\ \A k \in p..(j - 1) : IsSpace(At(s, k))

\* the last position <= p of s that holds no whitespace (0 if none)
SkipSpacesBack(s, p) ==
  IF \A j \in 1..p : IsSpace(At(s, j)) THEN 0
  ELSE CHOOSE j \in 1..p :
         ~IsSpace(At(s, j)) /\ \A k \in (j + 1)..p : IsSpace(At(s, k))

\* [\d,]
IsDigitComma(c) == IsDigit(c) \/ c = ","

\* re.search(r'\$\s*[\d,]+\.?\d*', s): a '$', optional whitespace, a digit or comma
money_dollar_sign(s) ==
  \E i \in 1..Len(s) :
     /\ At(s, i) = "$"
     /\ LET j == SkipSpaces(s, i + 1)
        IN  j <= Len(s) /\ IsDigitComma(At(s, j))

\* re.search(r'USD\s*[\d,]+\.?\d*', s, re.IGNORECASE)
money_usd(s) ==
  \E i \in 1..(Len(s) - 2) :
     /\ lower(SubSeq(s, i, i + 2)) = "usd"
     /\ LET j == SkipSpaces(s, i + 3)
        IN  j <= Len(s) /\ IsDigitComma(At(s, j))

\* re.search(r'[\d,]+\.?\d*\s*dollars?', s, re.IGNORECASE): before 'dollar' and
\* the whitespace in front of it, a digit or comma, or a '.' after a digit or comma
money_dollars(s) ==
  \E i \in 1..(Len(s) - 5) :
     /\ lower(SubSeq(s, i, i + 5)) = "dollar"
     /\ LET j == SkipSpacesBack(s, i - 1)
        IN  /\ j >= 1
            /\ \/ IsDigitComma(At(s, j))
               \/ At(s, j) = "." /\ j >= 2 /\ IsDigitComma(At(s, j - 1))

\* the loop over money_patterns, lines 160-163: some pattern matches
money_patterns(s) == money_dollar_sign(s) \/ money_usd(s) \/ money_dollars(s)

\* s has word (lower case) at position i, ignoring case
HasAt(s, i, word) ==
  /\ i >= 1
  /\ i + Len(word) - 1 <= Len(s)
  /\ lower(SubSeq(s, i, i + Len(word) - 1)) = word

\* positions i..(i + n - 1) of s all hold digits
DigitsAt(s, i, n) ==
  /\ i >= 1
  /\ i + n - 1 <= Len(s)
  /\ \A j \in i..(i + n - 1) : IsDigit(At(s, j))

\* re.search(r'\d{1,2}<sep>\d{1,2}<sep>\d{2,4}', s), sep one of '/' and '-'
date_numeric(s, sep) ==
  \E p \in 2..Len(s) :
     /\ At(s, p) = sep
     /\ IsDigit(At(s, p - 1))
     /\ \/ DigitsAt(s, p + 1, 1) /\ At(s, p + 2) = sep /\ DigitsAt(s, p + 3, 2)
        \/ DigitsAt(s, p + 1, 2) /\ At(s, p + 3) = sep /\ DigitsAt(s, p + 4, 2)

month_names ==
  << "january", "february", "march", "april", "may", "june", "july",
     "august", "september", "october", "november", "december" >>

\* re.search(r'(January|...|December)\s+\d{1,2},?\s+\d{4}', s, re.IGNORECASE)
date_month_first(s) ==
  \E i \in 1..Len(s) : \E m \in 1..Len(month_names) :
     /\ HasAt(s, i, month_names[m])
     /\ LET a == i + Len(month_names[m])
            b == SkipSpaces(s, a)
        IN  /\ b > a
            /\ \E n \in {1, 2} :
                 /\ DigitsAt(s, b, n)
                 /\ LET c == IF At(s, b + n) = "," THEN b + n + 1 ELSE b + n
                        d == SkipSpaces(s, c)
                    IN  d > c /\ DigitsAt(s, d, 4)

\* re.search(r'\d{1,2}\s+(January|...|December)\s+\d{4}', s, re.IGNORECASE)
date_day_first(s) ==
  \E i \in 1..Len(s) : \E m \in 1..Len(month_names) :
     /\ HasAt(s, i, month_names[m])
     /\ LET z == SkipSpacesBack(s, i - 1)
            a == i + Len(month_names[m])
            b == SkipSpaces(s, a)
        IN  /\ z >= 1 /\ z < i - 1 /\ IsDigit(At(s, z))
            /\ b > a /\ DigitsAt(s, b, 4)

\* the loop over date_patterns, lines 228-231: some pattern matches
date_patterns(s) ==
  \/ date_numeric(s, "/")
  \/ date_numeric(s, "-")
  \/ date_month_first(s)
  \/ date_day_first(s)

\* The legal patterns.  The source spells the section sign and the bullet with
\* characters outside ASCII; the texts of this model are ASCII, which those
\* alternatives cannot match, and an optional section sign matches empty.

\* re.search(r'(?:Section|Sec\.|<sign>)\s*\d+(?:\.\d+)*(?:\([a-z0-9]+\))?', s, I)
legal_section(s) ==
  \E i \in 1..Len(s) : \E w \in {"section", "sec."} :
     /\ HasAt(s, i, w)
     /\ DigitsAt(s, SkipSpaces(s, i + Len(w)), 1)

\* the position after an optional '.' at position p
OptDot(s, p) == IF At(s, p) = "." THEN p + 1 ELSE p

\* re.search(r'\d+\s+U\.?S\.?C\.?\s*<sign>?\s*\d+', s, I)
legal_usc(s) ==
  \E i \in 1..Len(s) :
     /\ HasAt(s, i, "u")
     /\ LET z == SkipSpacesBack(s, i - 1)
            a == OptDot(s, i + 1)
            b == OptDot(s, a + 1)
            c == OptDot(s, b + 1)
        IN  /\ z >= 1 /\ z < i - 1 /\ IsDigit(At(s, z))
            /\ HasAt(s, a, "s")
            /\ HasAt(s, b, "c")
            /\ DigitsAt(s, SkipSpaces(s, c), 1)

\* re.search(r'IRC\s*<sign>?\s*\d+(?:\([a-z0-9]+\))?', s, I)
legal_irc(s) ==
  \E i \in 1..Len(s) :
     /\ HasAt(s, i, "irc")
     /\ DigitsAt(s, SkipSpaces(s, i + 3), 1)

\* re.search(r'\d+\s+CFR\s+\d+(?:\.\d+)*', s, I)
legal_cfr(s) ==
  \E i \in 1..Len(s) :
     /\ HasAt(s, i, "cfr")
     /\ LET z == SkipSpacesBack(s, i - 1)
            b == SkipSpaces(s, i + 3)
        IN  /\ z >= 1 /\ z < i - 1 /\ IsDigit(At(s, z))
            /\ b > i + 3 /\ DigitsAt(s, b, 1)

\* re.search(r'Title\s+\d+(?:,\s*(?:Section|<sign>)\s*\d+)?', s, I)
legal_title(s) ==
  \E i \in 1..Len(s) :
     /\ HasAt(s, i, "title")
     /\ LET b == SkipSpaces(s, i + 5)
        IN  b > i + 5 /\ DigitsAt(s, b, 1)

\* the position after the digits that start at p
SkipDigits(s, p) ==
  IF \A j \in p..Len(s) : IsDigit(At(s, j)) THEN Max2(p, Len(s) + 1)
  ELSE CHOOSE j \in p..Len(s) :
         ~IsDigit(At(s, j)) /\ \A k \in p..(j - 1) : IsDigit(At(s, k))

\* \d+-\d+ at position p of s
law_number(s, p) ==
  /\ DigitsAt(s, p, 1)
  /\ At(s, SkipDigits(s, p)) = "-"
  /\ DigitsAt(s, SkipDigits(s, p) + 1, 1)

\* re.search(r'(?:Pub\.|Public)\s*L\.\s*(?:No\.\s*)?\d+-\d+', s, I)
legal_public_law(s) ==
  \E i \in 1..Len(s) : \E w \in {"pub.", "public"} :
     /\ HasAt(s, i, w)
     /\ LET a == SkipSpaces(s, i + Len(w))
            b == SkipSpaces(s, a + 2)
            c == IF HasAt(s, b, "no.") THEN SkipSpaces(s, b + 3) ELSE b
        IN  /\ HasAt(s, a, "l.")
            /\ law_number(s, c) \/ law_number(s, b)

\* re.match(r'^(?:\d+\.|[A-Z]\.|<bullet>|\*)', s): no flags, so [A-Z] is upper case
list_marker(s) ==
  \/ DigitsAt(s, 1, 1) /\ At(s, SkipDigits(s, 1)) = "."
  \/ At(s, 1) \in DOMAIN UpperToLower /\ At(s, 2) = "."
  \/ At(s, 1) = "*"

(***************************************************************************)
(* The case-number patterns run over the whole text (re.finditer), so a    *)
(* match may run across line ends: \s matches the newlines too.            *)
(* A position of the text is <<i, p>>: column p of entry i's line, or,     *)
(* with p = Len(line) + 1, the newlines after it.                          *)
(***************************************************************************)
\* the first position at or after <<i, p>> that holds no whitespace
RECURSIVE SkipTextSpaces(_, _, _)
SkipTextSpaces(text, i, p) ==
  IF i > Len(text) THEN <<i, 1>>
  ELSE LET q == SkipSpaces(text[i].line, p)
       IN  IF q <= Len(text[i].line) THEN <<i, q>>
           ELSE SkipTextSpaces(text, i + 1, 1)

\* the character at position <<i, p>> ("" at the end of the text)
TextAt(text, pos) ==
  IF pos[1] > Len(text) THEN ""
  ELSE IF pos[2] <= Len(text[pos[1]].line) THEN At(text[pos[1]].line, pos[2])
  ELSE IF text[pos[1]].nl > 0 THEN "\n"
  ELSE IF pos[1] < Len(text) THEN At(text[pos[1] + 1].line, 1)
  ELSE ""

\* [A-Z0-9-] under re.IGNORECASE
IsIdChar(c) == IsAlpha(c) \/ IsDigit(c) \/ c = "-"

\* the position after the [A-Z0-9-] characters that start at column p of s
SkipId(s, p) ==
  IF \A j \in p..Len(s) : IsIdChar(At(s, j)) THEN Max2(p, Len(s) + 1)
  ELSE CHOOSE j \in p..Len(s) :
         ~IsIdChar(At(s, j)) /\ \A k \in p..(j - 1) : IsIdChar(At(s, k))

NoMatch == [ok |-> FALSE, group |-> "", end |-> <<0, 0>>]

\* the position after the character at pos when it is one of chars, else pos
SkipOne(text, pos, chars) ==
  IF TextAt(text, pos) \in chars THEN <<pos[1], pos[2] + 1>> ELSE pos

\* the whitespace from pos on skipped
SkipFrom(text, pos) == SkipTextSpaces(text, pos[1], pos[2])

\* the group ([A-Z0-9-]+) at position e, and where it ends; NoMatch if none
case_group_at(text, e) ==
  IF e[1] <= Len(text) /\ IsIdChar(TextAt(text, e))
    THEN Bind(SkipId(text[e[1]].line, e[2]), LAMBDA stop :
           [ok    |-> TRUE,
            group |-> SubSeq(text[e[1]].line, e[2], stop - 1),
            end   |-> <<e[1], stop>>])
    ELSE NoMatch

\* The match of  <first>\s+<second>\.?\s*[:.]?\s*([A-Z0-9-]+)  that starts at
\* <<i, p>> (without the \.? when dot is FALSE): its group and where it ends.
case_match_at(text, i, p, first, second, dot) ==
  IF ~(HasAt(text[i].line, p, first) /\ IsSpace(TextAt(text, <<i, p + Len(first)>>)))
    THEN NoMatch
  ELSE Bind(SkipTextSpaces(text, i, p + Len(first)), LAMBDA b :
         IF ~(b[1] <= Len(text) /\ HasAt(text[b[1]].line, b[2], second))
           THEN NoMatch
         ELSE Bind(SkipOne(text, <<b[1], b[2] + Len(second)>>,
                           IF dot THEN {"."} ELSE {}), LAMBDA c :
              Bind(SkipFrom(text, c), LAMBDA d :
              Bind(SkipOne(text, d, {":", "."}), LAMBDA d2 :
              Bind(SkipFrom(text, d2), LAMBDA e : case_group_at(text, e))))))

\* position x is before position y
PosBefore(x, y) == x[1] < y[1] \/ (x[1] = y[1] /\ x[2] < y[2])

\* re.finditer: the matches from left to right, each starting where the one
\* before it ended or later; starts is the sequence of positions to try
RECURSIVE finditer_from(_, _, _, _, _, _, _)
finditer_from(text, starts, k, from, first, second, dot) ==
  IF k > Len(starts) THEN << >>
  ELSE Bind(case_match_at(text, starts[k][1], starts[k][2], first, second, dot),
            LAMBDA m :
              IF m.ok /\ ~PosBefore(starts[k], from)
                THEN <<m.group>> \o
                     finditer_from(text, starts, k + 1, m.end, first, second, dot)
                ELSE finditer_from(text, starts, k + 1, from, first, second, dot))

\* the positions of s that satisfy Test, in increasing order
Positions(s, Test(_)) ==
  Flatten([p \in 1..Len(s) |-> IF Test(p) THEN <<p>> ELSE << >>], 1, Len(s))

\* the positions of entry i of text where the word first stands
case_starts(text, i, first) ==
  Bind(Positions(text[i].line, LAMBDA p : HasAt(text[i].line, p, first)),
       LAMBDA cols : [k \in 1..Len(cols) |-> <<i, cols[k]>>])

\* the groups of the matches that begin in the first 50 lines of the text
case_finditer_50_lines(text, first, second, dot) ==
  Bind(SubSeq(text, 1,
              Cardinality({i \in 1..Len(text) :
                             Sum([j \in 1..Len(text) |-> text[j].nl], 1, i - 1) < 50})),
       LAMBDA head :
         Bind(Flatten([i \in 1..Len(head) |-> case_starts(head, i, first)], 1, Len(head)),
              LAMBDA starts : finditer_from(head, starts, 1, <<1, 1>>, first, second, dot)))

\* the groups of re.finditer(pattern, text, re.IGNORECASE) for a case pattern
case_finditer(text, first, second, dot) ==
  Bind(Flatten([i \in 1..Len(text) |-> case_starts(text, i, first)], 1, Len(text)),
       LAMBDA starts : finditer_from(text, starts, 1, <<1, 1>>, first, second, dot))

\* case_patterns, lines 83-87, as (first word, second word, optional '.')
case_patterns ==
  << [first |-> "case",   second |-> "no",     dot |-> TRUE],
     [first |-> "docket", second |-> "no",     dot |-> TRUE],
     [first |-> "case",   second |-> "number", dot |-> FALSE] >>

(***************************************************************************)
(* The entity recognizer, nlp (spaCy's en_core_web_sm, lines 26-32): an    *)
(* external model, stood for by a fixed tagger.  Its tokens are the words  *)
(* of the text; a token keeps the whitespace that follows it on its line   *)
(* (ws) and the number of newlines that follow its line when it is the     *)
(* last word of a line (nl).  A Doc is [tokens, ents]; an entity is a span *)
(* [label_, text, start, end] of token indices, 0-based, end exclusive.    *)
(***************************************************************************)
\* the position after the word of line that starts at position p
word_stop(line, p) ==
  IF \A j \in p..Len(line) : ~IsSpace(At(line, j)) THEN Len(line) + 1
  ELSE CHOOSE j \in p..Len(line) :
         IsSpace(At(line, j)) /\ \A q \in p..(j - 1) : ~IsSpace(At(line, q))

\* the tokens of one line followed by nl newlines
line_tokens(line, nl) ==
  LET starts == {p \in 1..Len(line) :
                   ~IsSpace(At(line, p)) /\ (p = 1 \/ IsSpace(At(line, p - 1)))}
      n      == Cardinality(starts)
      st     == [k \in 1..n |->
                   CHOOSE p \in starts : Cardinality({q \in starts : q <= p}) = k]
  IN  [k \in 1..n |->
         [text |-> SubSeq(line, st[k], word_stop(line, st[k]) - 1),
          ws   |-> IF k < n THEN SubSeq(line, word_stop(line, st[k]), st[k + 1] - 1)
                            ELSE "",
          nl   |-> IF k < n THEN 0 ELSE nl]]

\* the label the tagger gives a token ("" for none)
ent_label(tok) ==
  IF At(tok, 1) = "$" /\ IsDigit(At(tok, 2)) THEN "MONEY"
  ELSE IF IsDigit(At(tok, 1)) /\ Contains(tok, "/") THEN "DATE"
  ELSE IF HasAt(tok, 1, "mr.") /\ Len(tok) > 3 THEN "PERSON"
  ELSE IF Contains(lower(tok), "court") \/ Contains(lower(tok), "tribunal")
          \/ endswith(tok, "Inc.") \/ tok = "IRS" THEN "ORG"
  ELSE ""

\* doc = nlp(text), line 332
nlp(text) ==
  LET tokens == Flatten([i \in 1..Len(text) |-> line_tokens(text[i].line, text[i].nl)],
                        1, Len(text))
      tagged == {k \in 1..Len(tokens) : ent_label(tokens[k].text) # ""}
      n      == Cardinality(tagged)
      at     == [j \in 1..n |->
                   CHOOSE k \in tagged : Cardinality({q \in tagged : q <= k}) = j]
  IN  [tokens |-> tokens,
       ents   |-> [j \in 1..n |->
                     [label_ |-> ent_label(tokens[at[j]].text),
                      text   |-> tokens[at[j]].text,
                      start  |-> at[j] - 1,
                      end    |-> at[j]]]]

\* len(doc[start:end].text)
span_len(doc, start, end) ==
  Sum([k \in 1..Len(doc.tokens) |->
         Len(doc.tokens[k].text)
           + (IF k < end THEN Len(doc.tokens[k].ws) + doc.tokens[k].nl ELSE 0)],
      start + 1, end)

\* token k of a span that ends at end, with the whitespace after it when it is
\* not the last token of the span
span_piece(doc, k, end) ==
  doc.tokens[k].text \o
    (IF k < end THEN doc.tokens[k].ws \o StrTimes("\n", doc.tokens[k].nl) ELSE "")

\* the text of tokens lo..hi of a span that ends at end
RECURSIVE span_join(_, _, _, _)
span_join(doc, lo, hi, end) ==
  IF lo > hi THEN ""
  ELSE IF lo = hi THEN span_piece(doc, lo, end)
  ELSE span_join(doc, lo, (lo + hi) \div 2, end)
         \o span_join(doc, ((lo + hi) \div 2) + 1, hi, end)

\* doc[start:end].text
span_text(doc, start, end) == span_join(doc, start + 1, end, end)

(***************************************************************************)
(* DocumentAnalyzer                                                        *)
(***************************************************************************)
\* DocumentAnalyzer.__init__: the keyword lists of the shared instance
DocumentAnalyzer ==
  [case_keywords  |-> << "case no", "case number", "docket", "plaintiff", "defendant",
                         "petitioner", "respondent", "court", "judge", "jurisdiction" >>,
   tax_keywords   |-> << "tax", "penalty", "interest", "assessment", "liability",
                         "payment", "amount due", "balance", "deficiency", "refund" >>,
   date_keywords  |-> << "deadline", "due date", "filing date", "hearing", "trial date",
                         "effective date", "tax year", "period" >>,
   legal_keywords |-> << "section", "code", "statute", "regulation", "act", "usc",
                         "cfr", "irc", "title", "chapter", "subsection" >>]

\* no cut at all
SliceAll(results, cap) == results

\* results[:cap]
Slice(results, cap) == SubSeq(results, 1, Min2(cap, Len(results)))

\* One turn of a "remove duplicates" loop: st is [seen, unique_results], key the
\* item's dedup key.
dedup_step(st, item, key) ==
  IF key \notin st.seen
    THEN [seen |-> st.seen \cup {key}, unique_results |-> Append(st.unique_results, item)]
    ELSE st

\* the loop of lines 112-118 over results[lo..hi]: the key is (heading, content)
RECURSIVE dedup_pairs(_, _, _, _)
dedup_pairs(results, lo, hi, st) ==
  IF lo > hi THEN st
  ELSE IF lo = hi THEN dedup_step(st, results[lo], results[lo])
  ELSE Bind(dedup_pairs(results, lo, (lo + hi) \div 2, st), LAMBDA half :
            dedup_pairs(results, ((lo + hi) \div 2) + 1, hi, half))

\* the loop of lines 185-190 (and 251-256, 285-290, 314-319): the key is content
RECURSIVE dedup_content(_, _, _, _)
dedup_content(results, lo, hi, st) ==
  IF lo > hi THEN st
  ELSE IF lo = hi THEN dedup_step(st, results[lo], results[lo][2])
  ELSE Bind(dedup_content(results, lo, (lo + hi) \div 2, st), LAMBDA half :
            dedup_content(results, ((lo + hi) \div 2) + 1, hi, half))

NoneSeen == [seen |-> {}, unique_results |-> << >>]

\* the items of doc.ents under scan(ent), in entity order
EntScan(doc, scan(_)) ==
  Flatten([j \in 1..Len(doc.ents) |-> scan(doc.ents[j])], 1, Len(doc.ents))

\* ---- extract_case_info ------------------------------------------------
\* line.strip().split(':', 1)[-1].strip() if ':' in line else line.strip()
party_content(line) ==
  IF Contains(line, ":")
    THEN LET s == strip(line)
             c == CHOOSE i \in 1..Len(s) :
                    At(s, i) = ":" /\ \A j \in 1..(i - 1) : At(s, j) # ":"
         IN  strip(SubSeq(s, c + 1, Len(s)))
    ELSE strip(line)

\* the body of the loop of lines 95-104 for one line
party_line(line) ==
  LET line_lower == lower(line)
      sized == Len(strip(line)) < 100 /\ Len(strip(line)) > 5
  IN  IF sized /\ Contains(line_lower, "plaintiff")
        THEN << <<"Plaintiff", party_content(line)>> >>
      ELSE IF sized /\ Contains(line_lower, "defendant")
        THEN << <<"Defendant", party_content(line)>> >>
      ELSE IF sized /\ Contains(line_lower, "petitioner")
        THEN << <<"Petitioner", party_content(line)>> >>
      ELSE IF sized /\ Contains(line_lower, "respondent")
        THEN << <<"Respondent", party_content(line)>> >>
      ELSE << >>

\* the body of the loop of lines 107-109 for one entity
court_ent(ent) ==
  IF ent.label_ = "ORG"
       /\ (Contains(lower(ent.text), "court") \/ Contains(lower(ent.text), "tribunal"))
    THEN << <<"Court", ent.text>> >>
    ELSE << >>

\* lines 89-92: the case numbers, pattern by pattern
case_numbers(text) ==
  Flatten([k \in 1..Len(case_patterns) |->
             LET groups == case_finditer(text, case_patterns[k].first,
                                         case_patterns[k].second, case_patterns[k].dot)
             IN  [g \in 1..Len(groups) |-> <<"Case Number", groups[g]>>]],
          1, Len(case_patterns))

\* results of extract_case_info before the duplicates are removed
case_info_results(text, doc) ==
  case_numbers(text)
    \o LineScan(first_lines(split_lines(text), 50), party_line)
    \o EntScan(doc, court_ent)

extract_case_info(self, text, doc) ==
  LET results == case_info_results(text, doc)
  IN  Slice(dedup_pairs(results, 1, Len(results), NoneSeen).unique_results, 15)

\* ---- extract_tax_amounts ----------------------------------------------
\* the amount due looked for before the penalty
tax_heading_due_first(line_lower) ==
  IF Contains(line_lower, "unpaid") \/ Contains(line_lower, "owed")
       \/ Contains(line_lower, "due") THEN "Amount Due"
  ELSE IF Contains(line_lower, "penalty") \/ Contains(line_lower, "penalties") THEN "Penalty"
  ELSE IF Contains(line_lower, "interest") THEN "Interest"
  ELSE IF Contains(line_lower, "refund") THEN "Refund"
  ELSE IF Contains(line_lower, "assessment") THEN "Assessment"
  ELSE IF Contains(line_lower, "payment") THEN "Payment"
  ELSE IF Contains(line_lower, "liability") THEN "Liability"
  ELSE IF Contains(line_lower, "deficiency") THEN "Deficiency"
  ELSE "Amount"

\* lines 141-157: the heading of a line
tax_heading(line_lower) ==
  IF Contains(line_lower, "penalty") \/ Contains(line_lower, "penalties") THEN "Penalty"
  ELSE IF Contains(line_lower, "interest") THEN "Interest"
  ELSE IF Contains(line_lower, "unpaid") \/ Contains(line_lower, "owed")
          \/ Contains(line_lower, "due") THEN "Amount Due"
  ELSE IF Contains(line_lower, "refund") THEN "Refund"
  ELSE IF Contains(line_lower, "assessment") THEN "Assessment"
  ELSE IF Contains(line_lower, "payment") THEN "Payment"
  ELSE IF Contains(line_lower, "liability") THEN "Liability"
  ELSE IF Contains(line_lower, "deficiency") THEN "Deficiency"
  ELSE "Amount"

\* the lower limit one less
tax_line_skipped_under_9(line_stripped) ==
  Len(line_stripped) < 9 \/ Len(line_stripped) > 200

\* line 137: the line is skipped
tax_line_skipped(line_stripped) == Len(line_stripped) < 10 \/ Len(line_stripped) > 200

\* the body of the loop of lines 133-163 for one line
tax_line(self, line) ==
  LET line_lower    == lower(line)
      line_stripped == strip(line)
  IN  IF tax_line_skipped(line_stripped) THEN << >>
      ELSE IF AnyIn(self.tax_keywords, line_lower) /\ money_patterns(line)
        THEN << <<tax_heading(line_lower), line_stripped>> >>
      ELSE << >>

\* lines 174-180: the heading of a MONEY context
money_heading(context_lower) ==
  IF Contains(context_lower, "penalty") THEN "Penalty"
  ELSE IF Contains(context_lower, "interest") THEN "Interest"
  ELSE IF Contains(context_lower, "due") \/ Contains(context_lower, "owed") THEN "Amount Due"
  ELSE "Amount"

\* doc[max(0, ent.start - w):min(len(doc), ent.end + w)].text.strip() when it is
\* shorter than 200 characters, "" otherwise (both uses require len(context) < 200;
\* a span starts and ends with a word, so its length is that of its stripped text)
short_context(doc, ent, w) ==
  LET start == Max2(0, ent.start - w)
      end   == Min2(Len(doc.tokens), ent.end + w)
  IN  IF span_len(doc, start, end) < 200 THEN strip(span_text(doc, start, end)) ELSE ""

\* the body of the loop of lines 166-182 for one entity
money_ent(self, doc, ent) ==
  IF ent.label_ = "MONEY"
    THEN LET context       == short_context(doc, ent, 10)
             context_lower == lower(context)
         IN  IF context # "" /\ AnyIn(self.tax_keywords, context_lower)
               THEN << <<money_heading(context_lower), context>> >>
               ELSE << >>
    ELSE << >>

\* the entity scan before the line scan
tax_amounts_results_ents_first(self, text, doc) ==
  EntScan(doc, LAMBDA ent : money_ent(self, doc, ent))
    \o LineScan(split_lines(text), LAMBDA line : tax_line(self, line))

tax_amounts_results(self, text, doc) ==
  LineScan(split_lines(text), LAMBDA line : tax_line(self, line))
    \o EntScan(doc, LAMBDA ent : money_ent(self, doc, ent))

extract_tax_amounts(self, text, doc) ==
  LET results == tax_amounts_results(self, text, doc)
  IN  Slice(dedup_content(results, 1, Len(results), NoneSeen).unique_results, 20)

\* ---- extract_dates ----------------------------------------------------
\* the filing date looked for before the deadline
date_heading_filing_first(line_lower) ==
  IF Contains(line_lower, "due date") \/ Contains(line_lower, "filing date")
    THEN "Filing Date"
  ELSE IF Contains(line_lower, "deadline") THEN "Deadline"
  ELSE IF Contains(line_lower, "hearing") THEN "Hearing Date"
  ELSE IF Contains(line_lower, "trial") THEN "Trial Date"
  ELSE IF Contains(line_lower, "effective") THEN "Effective Date"
  ELSE IF Contains(line_lower, "tax year") \/ Contains(line_lower, "taxable year")
    THEN "Tax Year"
  ELSE "Date"

\* lines 206-218: the heading of a line
date_heading(line_lower) ==
  IF Contains(line_lower, "deadline") THEN "Deadline"
  ELSE IF Contains(line_lower, "due date") \/ Contains(line_lower, "filing date")
    THEN "Filing Date"
  ELSE IF Contains(line_lower, "hearing") THEN "Hearing Date"
  ELSE IF Contains(line_lower, "trial") THEN "Trial Date"
  ELSE IF Contains(line_lower, "effective") THEN "Effective Date"
  ELSE IF Contains(line_lower, "tax year") \/ Contains(line_lower, "taxable year")
    THEN "Tax Year"
  ELSE "Date"

\* line 203: the line is skipped
date_line_skipped(line_stripped) == Len(line_stripped) < 10 \/ Len(line_stripped) > 200

\* the body of the loop of lines 199-231 for one line
date_line(self, line) ==
  LET line_lower    == lower(line)
      line_stripped == strip(line)
  IN  IF date_line_skipped(line_stripped) THEN << >>
      ELSE IF AnyIn(self.date_keywords, line_lower) /\ date_patterns(line)
        THEN << <<date_heading(line_lower), line_stripped>> >>
      ELSE << >>

\* lines 242-246: the heading of a DATE context
date_ent_heading(context_lower) ==
  IF Contains(context_lower, "deadline") THEN "Deadline"
  ELSE IF Contains(context_lower, "filing") THEN "Filing Date"
  ELSE "Date"

\* the body of the loop of lines 234-248 for one entity
date_ent(self, doc, ent) ==
  IF ent.label_ = "DATE"
    THEN LET context       == short_context(doc, ent, 8)
             context_lower == lower(context)
         IN  IF context # "" /\ AnyIn(self.date_keywords, context_lower)
               THEN << <<date_ent_heading(context_lower), context>> >>
               ELSE << >>
    ELSE << >>

dates_results(self, text, doc) ==
  LineScan(split_lines(text), LAMBDA line : date_line(self, line))
    \o EntScan(doc, LAMBDA ent : date_ent(self, doc, ent))

extract_dates(self, text, doc) ==
  LET results == dates_results(self, text, doc)
  IN  Slice(dedup_content(results, 1, Len(results), NoneSeen).unique_results, 20)

\* ---- extract_legal_references -----------------------------------------
\* line 276: the line is skipped
legal_line_skipped(line_stripped) == Len(line_stripped) < 10 \/ Len(line_stripped) > 200

\* the heading with the USC pattern tried before the Section pattern
legal_heading_usc_first(line) ==
  IF legal_usc(line) THEN "USC Reference"
  ELSE IF legal_section(line) THEN "Section"
  ELSE IF legal_irc(line) THEN "IRC Section"
  ELSE IF legal_cfr(line) THEN "CFR Reference"
  ELSE IF legal_title(line) THEN "Title Reference"
  ELSE IF legal_public_law(line) THEN "Public Law"
  ELSE ""

\* lines 279-282: the heading of the first of legal_patterns that matches, "" if none
legal_heading(line) ==
  IF legal_section(line) THEN "Section"
  ELSE IF legal_usc(line) THEN "USC Reference"
  ELSE IF legal_irc(line) THEN "IRC Section"
  ELSE IF legal_cfr(line) THEN "CFR Reference"
  ELSE IF legal_title(line) THEN "Title Reference"
  ELSE IF legal_public_law(line) THEN "Public Law"
  ELSE ""

\* the body of the loop of lines 274-282 for one line
legal_line(line) ==
  LET line_stripped == strip(line)
  IN  IF legal_line_skipped(line_stripped) THEN << >>
      ELSE IF legal_heading(line) # "" THEN << <<legal_heading(line), line_stripped>> >>
      ELSE << >>

legal_refs_results(text) == LineScan(split_lines(text), legal_line)

extract_legal_references(self, text) ==
  LET results == legal_refs_results(text)
  IN  Slice(dedup_content(results, 1, Len(results), NoneSeen).unique_results, 25)

\* ---- extract_other_details --------------------------------------------
\* the body of the loop of lines 299-303 for one line
key_point_line(line) ==
  LET line_stripped == strip(line)
  IN  IF Len(line_stripped) > 20 /\ Len(line_stripped) < 150 /\ list_marker(line_stripped)
        THEN << <<"Key Point", line_stripped>> >>
        ELSE << >>

\* the turn of the loop without the limit of 30
other_ent_unlimited(results, ent) ==
  IF ent.label_ = "PERSON"
    THEN Append(results, <<"Person", ent.text>>)
  ELSE IF ent.label_ = "ORG" /\ ~Contains(lower(ent.text), "court")
    THEN Append(results, <<"Organization", ent.text>>)
  ELSE results

\* One turn of the loop of lines 306-311: results after the entity is seen.
other_ent(results, ent) ==
  IF ent.label_ = "PERSON" /\ Len(results) < 30
    THEN Append(results, <<"Person", ent.text>>)
  ELSE IF ent.label_ = "ORG" /\ Len(results) < 30
    THEN IF ~Contains(lower(ent.text), "court")
           THEN Append(results, <<"Organization", ent.text>>)
           ELSE results
  ELSE results

\* the loop of lines 306-311 over doc.ents[lo..hi]
RECURSIVE other_ents(_, _, _, _)
other_ents(ents, lo, hi, results) ==
  IF lo > hi THEN results
  ELSE IF lo = hi THEN other_ent(results, ents[lo])
  ELSE Bind(other_ents(ents, lo, (lo + hi) \div 2, results), LAMBDA half :
            other_ents(ents, ((lo + hi) \div 2) + 1, hi, half))

other_results(text, doc) ==
  other_ents(doc.ents, 1, Len(doc.ents), LineScan(split_lines(text), key_point_line))

extract_other_details(self, text, doc) ==
  LET results == other_results(text, doc)
  IN  Slice(dedup_content(results, 1, Len(results), NoneSeen).unique_results, 15)

\* ---- analyze_document -------------------------------------------------
\* max_length, line 328
max_length == 1000000

\* the validation with the limit moved by one
too_short_101(text) == text_len(text) = 0 \/ text_strip_len(text) < 101

\* line 325: the text is rejected
too_short(text) == text_len(text) = 0 \/ text_strip_len(text) < 100

\* the cut made some characters late
truncate_late(text) ==
  IF text_len(text) > max_length THEN text_prefix(text, max_length + 16) ELSE text

\* no truncation
truncate_never(text) == text

\* lines 329-330
truncate(text) == IF text_len(text) > max_length THEN text_prefix(text, max_length) ELSE text

CategoryKeys == {"case_info", "tax_amounts", "dates", "legal_refs", "other"}

ValueError(msg) == [type |-> "ValueError", status |-> 0, msg |-> msg]

Exception(msg) == [type |-> "Exception", status |-> 0, msg |-> msg]

\* fastapi.HTTPException: an Exception, and no ValueError
HTTPException(status_code, detail) ==
  [type |-> "HTTPException", status |-> status_code, msg |-> detail]

NoException == [type |-> "", status |-> 0, msg |-> ""]

\* str(e)
exc_str(e) == IF e.type = "HTTPException" THEN str(e.status) \o ": " \o e.msg ELSE e.msg

\* isinstance(e, cls) for the classes the handler catches
isinstance(e, cls) ==
  CASE cls = "ValueError" -> e.type = "ValueError"
    [] cls = "Exception"  -> e.type \in {"ValueError", "Exception", "HTTPException"}

\* results.get(key, [])
dict_get(results, key) == IF key \in DOMAIN results THEN results[key] ELSE << >>

\* format_results_html, lines 790-826: one card per category, in the fixed order,
\* with the items or, when there are none, the category's empty-state message
format_results_html(results) ==
  LET categories ==
        << <<"case_info",   "No case information found">>,
           <<"tax_amounts", "No tax amounts found">>,
           <<"dates",       "No dates found">>,
           <<"legal_refs",  "No legal references found">>,
           <<"other",       "No additional details found">> >>
  IN  [k \in 1..Len(categories) |->
         [key   |-> categories[k][1],
          items |-> dict_get(results, categories[k][1]),
          empty |-> IF dict_get(results, categories[k][1]) = << >>
                      THEN categories[k][2] ELSE ""]]

\* analyze_document, lines 323-342, run alone from call to return: what it gives
\* its caller, [kind, value, exc]
analyze_document(self, text) ==
  IF too_short(text)
    THEN [kind |-> "raised", value |-> << >>,
          exc |-> ValueError("Document text is too short or empty")]
    ELSE Bind(truncate(text), LAMBDA t :
         Bind(nlp(t), LAMBDA d :
           [kind  |-> "result",
            value |-> [case_info   |-> extract_case_info(self, t, d),
                       tax_amounts |-> extract_tax_amounts(self, t, d),
                       dates       |-> extract_dates(self, t, d),
                       legal_refs  |-> extract_legal_references(self, t),
                       other       |-> extract_other_details(self, t, d)],
            exc   |-> NoException]))

(***************************************************************************)
(* State.  Reqs are the calls in flight (requests of the server, or direct *)
(* calls of analyze_document); all of them use the one instance analyzer.  *)
(***************************************************************************)
NumReq == 2

Reqs == 1..NumReq

VARIABLES
  analyzer,   \* the module-level DocumentAnalyzer instance, line 345
  pc,         \* pc[r]: where call r stands
  via,        \* via[r]: "handler" (POST /analyze) or "direct" (analyze_document called)
  file,       \* file[r]: the upload, [filename, bytes, text]
  arg,        \* arg[r]: the text handed to analyze_document (the handler's text)
  text_of,    \* text_of[r]: analyze_document's variable text in call r
  doc_of,     \* doc_of[r]: the local variable doc in call r
  results_of, \* results_of[r]: the dict being built at lines 334-340 in call r
  ret,        \* ret[r]: what analyze_document gave its caller
  exc,        \* exc[r]: the exception in flight in the handler
  response,   \* response[r]: the HTTP response
  called      \* called[r]: the functions the handler has called

vars == <<analyzer, pc, via, file, arg, text_of, doc_of, results_of, ret, exc, response, called>>

NoFile == [filename |-> "", bytes |-> "", text |-> << >>]

NoDoc == [tokens |-> << >>, ents |-> << >>]

NoReturn == [kind |-> "none", value |-> << >>, exc |-> NoException]

NoResponse == [status |-> 0, detail |-> "", content |-> << >>]

(***************************************************************************)
(* Inputs                                                                  *)
(***************************************************************************)
\* "\n".join(lines) as a Text
Lines(lines) ==
  [i \in 1..Len(lines) |-> [line |-> lines[i], nl |-> IF i < Len(lines) THEN 1 ELSE 0]]

\* the lines of the scenarios of the specification, and parties, a court, a person
ScenarioLines ==
  << "Case No.: 2024-TX-00123",
     "Plaintiff: Mr.Smith",
     "Penalty assessed: $1,250.00 due immediately",
     "Filing deadline: 04/15/2024",
     "See Section 501(c)(3) for exemption details",
     "1. Heard before the TaxCourt for Acme Inc." >>

\* a text of more than max_length characters: head, newlines up to character
\* max_length - cut, then tail (cut characters of it fall before max_length)
Long(head, tail, cut) ==
  LET h == text_len(Lines(head))
  IN  [i \in 1..Len(head) |->
         [line |-> head[i],
          nl   |-> IF i < Len(head) THEN 1 ELSE max_length - cut - h]]
      \o Lines(tail)

TailA == << "Interest of $77 is owed on the unpaid tax balance",
            "Case No. 2031-after and Mr.Late of the Tribunal, deadline 01/02/2031" >>

TailB == << "Interest of $88 is owed by Mr.Other" >>

\* the newlines alone, then a tail
Blank(tail) == << [line |-> "", nl |-> max_length] >> \o Lines(tail)

Texts ==
  { << >>,
    Lines(<< "short" >>),
    << [line |-> "   ", nl |-> 150] >>,
    Lines(<< "  " \o StrTimes("x", 99) \o "  " >>),
    Lines(<< "  " \o StrTimes("x", 100) \o "  " >>),
    Lines(ScenarioLines),
    Long(ScenarioLines, TailA, 0),
    Long(ScenarioLines, TailB, 0),
    Long(ScenarioLines, TailA, 16),
    Long(ScenarioLines, << "x" >>, 0),
    Long(ScenarioLines, << >>, 0),
    Blank(<< StrTimes("Refund of $5 tax. ", 6) >>),
    Blank(<< "short" >>) }

\* a line of no word of interest, long enough alone to make a text valid
Filler == StrTimes("x", 100)

\* a valid text of the given lines
Document(lines) == Lines(lines \o << Filler >>)

\* the words the tax headings and tax keywords look for
TaxWords ==
  { "penalty", "penalties", "interest", "unpaid", "owed", "due", "refund", "assessment",
    "payment", "liability", "deficiency", "tax", "balance", "amount due", "fee" }

\* one word for each heading of lines 141-157
HeadingWords ==
  { "penalty", "interest", "due", "refund", "assessment", "payment", "liability",
    "deficiency" }

\* amounts of the three money_patterns, and one that is no amount
Amounts == { "$5", "USD 5", "5 dollars", "five" }

\* s between spaces, made n characters long without them
Padded(s, n) == "  " \o s \o StrTimes("x", n - Len(s)) \o " "

\* lines of trimmed lengths around the limits of lines 137, 203 and 276
LimitTexts ==
  { Document(<< Padded(s, n) >>) :
      s \in { "tax of $5", "Section 5", "period1/2/24" },
      n \in { 9, 10, 11, 12, 199, 200, 201 } }

\* the number of lines of the text that fills every category past its limit
NumLines == 27

ManyLine(i) ==
  str(i) \o ". Section " \o str(i) \o ": Plaintiff owes tax of $" \o str(i)
         \o " by the deadline 1/2/2024"

\* the first line twice, then the others
ManyLines == << ManyLine(1) >> \o [i \in 1..NumLines |-> ManyLine(i)]

\* lines whose trimmed lengths are the limits themselves
LimitLines ==
  << Padded("tax of $5", 10), Padded("tax of $5", 200),
     Padded("Section 5", 10), Padded("Section 5", 200),
     Padded("period1/2/24", 200) >>

\* one line that the line scans and the entity scans both give, whole
BothScans ==
  "Refund of $500 tax at the hearing 1/2/2024 for Mr.Smith " \o StrTimes("z", 60)

\* the words the date headings and date keywords look for
DateWords ==
  { "deadline", "due date", "filing date", "hearing", "trial date", "effective date",
    "tax year", "period", "trial", "effective", "taxable year", "filing", "date" }

\* one wording for each heading of lines 206-218
DateHeadingWords ==
  { "deadline", "due date", "filing date", "hearing", "trial date", "effective date",
    "tax year" }

\* dates of the four date_patterns, and one that is no date
Dates == { "1/2/2024", "1-2-24", "January 5, 2024", "5 January 2024", "someday" }

\* texts for the party scan: every ordered pair of roles on one line, lines of
\* trimmed lengths around 100, lines with no colon, two colons and nothing after
\* the colon, and a text with parties on its 50th and 51st lines
PartyTexts ==
  { Document(<< v \o " and " \o w \o ": Mr.X" >>) :
      v, w \in { "Plaintiff", "DEFENDANT", "petitioner", "Respondent" } }
    \cup { Document(<< Padded("Plaintiff: A", n) >>) : n \in { 98, 99, 100, 101 } }
    \cup { Document(<< "the respondent appeared", "Petitioner: Smith: Jones",
                       "Plaintiff:", "  Defendant :  Acme Inc.  " >>),
           << [line |-> Filler, nl |-> 49],
              [line |-> "Plaintiff: A", nl |-> 1],
              [line |-> "Defendant: B", nl |-> 0] >> }

\* texts for the entity step of extract_other_details: the same Key Point line
\* k times before a line with two persons and a company or with a court and a
\* person, and one person many times before other persons
OtherTexts ==
  { Document([i \in 1..k |-> "1. The taxpayer filed the return"] \o << last >>) :
      k \in { 0, 28, 29, 30, 31 },
      last \in { "seen by Mr.Jones and Mr.Brown of Acme Inc.",
                 "the TaxCourt heard Mr.Jones" } }
    \cup { Document([i \in 1..k |-> "seen by Mr.Adams"] \o << "by Mr.Zed and Mr.Young" >>) :
             k \in { 29, 30 } }

\* texts for the case-number scan: each label with and without '.', ':' and
\* blanks, two labels on a line, a label with no identifier, words that begin
\* like a label, a label spread over lines and one after the 50th line
CaseTexts ==
  { Document(<< line >>) :
      line \in { "Case No.: 2024-TX-00123", "Case Number: 2024-TX-00123",
                 "Docket No. 77-A", "DOCKET NO : 12", "case no 5", "Case No5",
                 "Case No. 1 and Case No. 2", "Case No.", "Docket Number 9",
                 "Case Note for the file", "Case No: Case No: 5",
                 "Docket No. 3, Case Number 4, Case No. 5 and Docket No. 3" } }
    \cup { Document(<< "Case", "No.", ":", "5-B" >>),
           << [line |-> Filler, nl |-> 60], [line |-> "Docket No. 77-A", nl |-> 0] >> }

\* texts for the legal references: every ordered pair of references to the six
\* legal_patterns on one line, and lines that match none, some with entities
LegalTexts ==
  { Document(<< v \o " and " \o w >>) :
      v, w \in { "Section 5", "26 U.S.C. 501", "IRC 61", "26 CFR 1.61", "Title 26",
                 "Pub. L. 115-97" } }
    \cup { Document(<< "Section five of the code", "Title Page of the brief",
                       "USC 501 alone here", "IRS notice for Mr.Smith",
                       "heard by the TaxCourt on 1/2/2024" >>) }

ScanTexts ==
  PartyTexts \cup OtherTexts \cup CaseTexts \cup LegalTexts \cup
  { Document(<< w \o " of about " \o a >>) : w \in TaxWords, a \in Amounts }
    \cup { Document(<< v \o " and " \o w \o " of $5" >>) : v, w \in HeadingWords }
    \cup { Document(<< w \o " set for " \o d >>) : w \in DateWords, d \in Dates }
    \cup { Document(<< v \o " and " \o w \o " on 1-2-24" >>) : v, w \in DateHeadingWords }
    \cup LimitTexts
    \cup { Lines(ManyLines),
           Lines(<< BothScans >>),
           Lines(LimitLines),
           Document(ScenarioLines \o ScenarioLines \o << "  Case No.: 2024-TX-00123  " >>) }

\* the uploads: [filename, bytes, text], bytes the format of the file's bytes
\* ("" for no bytes) and text the text a matching extractor reads from them
Upload(filename, bytes, t) == [filename |-> filename, bytes |-> bytes, text |-> t]

Uploads ==
  { Upload("brief.pdf", "pdf", t) : t \in Texts }
    \cup { Upload("BRIEF.PDF", "pdf", Lines(ScenarioLines)),
           Upload("memo.docx", "docx", Lines(ScenarioLines)),
           Upload("memo.DocX", "docx", Lines(<< "short" >>)),
           Upload("notes.txt", "pdf", Lines(ScenarioLines)),
           Upload("", "pdf", Lines(ScenarioLines)),
           Upload("pdf", "pdf", Lines(ScenarioLines)),
           Upload("brief.pdf.bak", "pdf", Lines(ScenarioLines)),
           Upload("brief.pdf", "", << >>),
           Upload("brief.pdf", "garbage", << >>),
           Upload("memo.docx", "pdf", Lines(ScenarioLines)) }

(***************************************************************************)
(* The POST /analyze handler, lines 762-787                                *)
(***************************************************************************)
Idle(r) == pc[r] = "idle"

\* what a call starts from
Fresh(r, f, t, how, at) ==
  /\ pc'         = [pc EXCEPT ![r] = at]
  /\ via'        = [via EXCEPT ![r] = how]
  /\ file'       = [file EXCEPT ![r] = f]
  /\ arg'        = [arg EXCEPT ![r] = t]
  /\ text_of'    = [text_of EXCEPT ![r] = << >>]
  /\ doc_of'     = [doc_of EXCEPT ![r] = NoDoc]
  /\ results_of' = [results_of EXCEPT ![r] = << >>]
  /\ ret'        = [ret EXCEPT ![r] = NoReturn]
  /\ exc'        = [exc EXCEPT ![r] = NoException]
  /\ response'   = [response EXCEPT ![r] = NoResponse]
  /\ called'     = [called EXCEPT ![r] = {}]

\* a request arrives; the server takes one request at a time
Receive(r) ==
  /\ \A q \in Reqs : Idle(q)
  /\ \E f \in Uploads : Fresh(r, f, << >>, "handler", "handler")
  /\ UNCHANGED analyzer

\* raise e inside the handler's try block
Raise(r, e) ==
  /\ exc' = [exc EXCEPT ![r] = e]
  /\ pc'  = [pc EXCEPT ![r] = "except"]

\* line 766: the file name is no PDF's and no DOCX's
unsupported(filename) ==
  filename = "" \/ ~(endswith(lower(filename), ".pdf") \/ endswith(lower(filename), ".docx"))

\* lines 766-767
CheckFilename(r) ==
  /\ pc[r] = "handler"
  /\ IF unsupported(file[r].filename)
       THEN Raise(r, HTTPException(400, "Only PDF and DOCX files are supported"))
       ELSE pc' = [pc EXCEPT ![r] = "read"] /\ UNCHANGED exc
  /\ UNCHANGED <<analyzer, via, file, arg, text_of, doc_of, results_of, ret, response, called>>

\* lines 769-772: file_bytes = await file.read(), and the empty file
ReadFile(r) ==
  /\ pc[r] = "read"
  /\ IF file[r].bytes = ""
       THEN Raise(r, HTTPException(400, "Empty file uploaded"))
       ELSE pc' = [pc EXCEPT ![r] = "extract_text"] /\ UNCHANGED exc
  /\ UNCHANGED <<analyzer, via, file, arg, text_of, doc_of, results_of, ret, response, called>>

\* extract_text_from_pdf, lines 56-66: the text, or the exception raised
extract_text_from_pdf(f) ==
  IF f.bytes = "pdf" THEN [ok |-> TRUE, text |-> f.text, exc |-> NoException]
  ELSE [ok |-> FALSE, text |-> << >>,
        exc |-> Exception("Error extracting PDF: cannot open stream")]

\* extract_text_from_docx, lines 68-75
extract_text_from_docx(f) ==
  IF f.bytes = "docx" THEN [ok |-> TRUE, text |-> f.text, exc |-> NoException]
  ELSE [ok |-> FALSE, text |-> << >>,
        exc |-> Exception("Error extracting DOCX: file is not a zip file")]

\* lines 774-777
ExtractText(r) ==
  /\ pc[r] = "extract_text"
  /\ LET pdf == endswith(lower(file[r].filename), ".pdf")
         got == IF pdf THEN extract_text_from_pdf(file[r])
                       ELSE extract_text_from_docx(file[r])
     IN  /\ called' = [called EXCEPT ![r] =
                         @ \cup {IF pdf THEN "extract_text_from_pdf"
                                        ELSE "extract_text_from_docx"}]
         /\ IF got.ok
              THEN /\ arg' = [arg EXCEPT ![r] = got.text]
                   /\ pc'  = [pc EXCEPT ![r] = "validate"]
                   /\ UNCHANGED exc
              ELSE Raise(r, got.exc) /\ UNCHANGED arg
  /\ UNCHANGED <<analyzer, via, file, text_of, doc_of, results_of, ret, response>>

(***************************************************************************)
(* DocumentAnalyzer.analyze_document, lines 323-342, statement by statement *)
(***************************************************************************)
\* lines 323-326: the call, and the validation of its text
AnalyzeValidate(r) ==
  /\ pc[r] = "validate"
  /\ called' = [called EXCEPT ![r] = @ \cup {"analyze_document"}]
  /\ text_of' = [text_of EXCEPT ![r] = arg[r]]
  /\ IF too_short(arg[r])
       THEN LET e == ValueError("Document text is too short or empty")
            IN  /\ ret' = [ret EXCEPT ![r] = [kind |-> "raised", value |-> << >>, exc |-> e]]
                /\ IF via[r] = "handler"
                     THEN Raise(r, e)
                     ELSE pc' = [pc EXCEPT ![r] = "raised"] /\ UNCHANGED exc
       ELSE /\ pc' = [pc EXCEPT ![r] = "truncate"]
            /\ UNCHANGED <<ret, exc>>
  /\ UNCHANGED <<analyzer, via, file, arg, doc_of, results_of, response>>

\* lines 328-330
AnalyzeTruncate(r) ==
  /\ pc[r] = "truncate"
  /\ text_of' = [text_of EXCEPT ![r] = truncate(text_of[r])]
  /\ pc'   = [pc EXCEPT ![r] = "nlp"]
  /\ UNCHANGED <<analyzer, via, file, arg, doc_of, results_of, ret, exc, response, called>>

\* line 332
AnalyzeNlp(r) ==
  /\ pc[r] = "nlp"
  /\ doc_of' = [doc_of EXCEPT ![r] = nlp(text_of[r])]
  /\ pc'  = [pc EXCEPT ![r] = "case_info"]
  /\ UNCHANGED <<analyzer, via, file, arg, text_of, results_of, ret, exc, response, called>>

\* results with results[key] = value
Put(res, key, value) == (key :> value) @@ res

\* line 335
ExtractCaseInfo(r) ==
  /\ pc[r] = "case_info"
  /\ results_of' = [results_of EXCEPT ![r] =
                   Put(@, "case_info", extract_case_info(analyzer, text_of[r], doc_of[r]))]
  /\ pc' = [pc EXCEPT ![r] = "tax_amounts"]
  /\ UNCHANGED <<analyzer, via, file, arg, text_of, doc_of, ret, exc, response, called>>

\* line 336, with an extractor that uses up the keywords of the instance
ExtractTaxAmountsOnce(r) ==
  /\ pc[r] = "tax_amounts"
  /\ results_of' = [results_of EXCEPT ![r] =
                   Put(@, "tax_amounts", extract_tax_amounts(analyzer, text_of[r], doc_of[r]))]
  /\ analyzer' = [analyzer EXCEPT !.tax_keywords = << >>]
  /\ pc' = [pc EXCEPT ![r] = "dates"]
  /\ UNCHANGED <<via, file, arg, text_of, doc_of, ret, exc, response, called>>

\* line 336
ExtractTaxAmounts(r) ==
  /\ pc[r] = "tax_amounts"
  /\ results_of' = [results_of EXCEPT ![r] =
                   Put(@, "tax_amounts", extract_tax_amounts(analyzer, text_of[r], doc_of[r]))]
  /\ pc' = [pc EXCEPT ![r] = "dates"]
  /\ UNCHANGED <<analyzer, via, file, arg, text_of, doc_of, ret, exc, response, called>>

\* line 337, with one results dict for all the calls that are running
ExtractDatesShared(r) ==
  /\ pc[r] = "dates"
  /\ results_of' = [q \in Reqs |->
                   IF q = r \/ pc[q] \in {"tax_amounts", "dates", "legal_refs", "other", "return"}
                     THEN Put(results_of[q], "dates",
                              extract_dates(analyzer, text_of[r], doc_of[r]))
                     ELSE results_of[q]]
  /\ pc' = [pc EXCEPT ![r] = "legal_refs"]
  /\ UNCHANGED <<analyzer, via, file, arg, text_of, doc_of, ret, exc, response, called>>

\* line 337
ExtractDates(r) ==
  /\ pc[r] = "dates"
  /\ results_of' = [results_of EXCEPT ![r] =
                   Put(@, "dates", extract_dates(analyzer, text_of[r], doc_of[r]))]
  /\ pc' = [pc EXCEPT ![r] = "legal_refs"]
  /\ UNCHANGED <<analyzer, via, file, arg, text_of, doc_of, ret, exc, response, called>>

\* line 338
ExtractLegalReferences(r) ==
  /\ pc[r] = "legal_refs"
  /\ results_of' = [results_of EXCEPT ![r] =
                   Put(@, "legal_refs", extract_legal_references(analyzer, text_of[r]))]
  /\ pc' = [pc EXCEPT ![r] = "other"]
  /\ UNCHANGED <<analyzer, via, file, arg, text_of, doc_of, ret, exc, response, called>>

\* line 339
ExtractOtherDetails(r) ==
  /\ pc[r] = "other"
  /\ results_of' = [results_of EXCEPT ![r] =
                   Put(@, "other", extract_other_details(analyzer, text_of[r], doc_of[r]))]
  /\ pc' = [pc EXCEPT ![r] = "return"]
  /\ UNCHANGED <<analyzer, via, file, arg, text_of, doc_of, ret, exc, response, called>>

\* line 342
AnalyzeReturn(r) ==
  /\ pc[r] = "return"
  /\ ret' = [ret EXCEPT ![r] = [kind |-> "result", value |-> results_of[r], exc |-> NoException]]
  /\ pc'  = [pc EXCEPT ![r] = IF via[r] = "handler" THEN "format" ELSE "returned"]
  /\ UNCHANGED <<analyzer, via, file, arg, text_of, doc_of, results_of, exc, response, called>>

Analyze(r) ==
  \/ AnalyzeValidate(r)
  \/ AnalyzeTruncate(r)
  \/ AnalyzeNlp(r)
  \/ ExtractCaseInfo(r)
  \/ ExtractTaxAmounts(r)
  \/ ExtractDates(r)
  \/ ExtractLegalReferences(r)
  \/ ExtractOtherDetails(r)
  \/ AnalyzeReturn(r)

\* lines 780-782
Respond(r) ==
  /\ pc[r] = "format"
  /\ response' = [response EXCEPT ![r] =
                    [status |-> 200, detail |-> "",
                     content |-> format_results_html(ret[r].value)]]
  /\ pc' = [pc EXCEPT ![r] = "done"]
  /\ UNCHANGED <<analyzer, via, file, arg, text_of, doc_of, results_of, ret, exc, called>>

\* lines 784-787: the except clauses, in order
HandleException(r) ==
  /\ pc[r] = "except"
  /\ response' = [response EXCEPT ![r] =
       IF isinstance(exc[r], "ValueError")
         THEN [status |-> 400, detail |-> exc_str(exc[r]), content |-> << >>]
         ELSE [status |-> 500,
               detail |-> "Error processing document: " \o exc_str(exc[r]),
               content |-> << >>]]
  /\ pc' = [pc EXCEPT ![r] = "done"]
  /\ UNCHANGED <<analyzer, via, file, arg, text_of, doc_of, results_of, ret, exc, called>>

\* the response is sent and the request is over
Finish(r) ==
  /\ pc[r] = "done"
  /\ Fresh(r, NoFile, << >>, "", "idle")
  /\ UNCHANGED analyzer

(***************************************************************************)
(* analyze_document called directly on the shared instance                 *)
(***************************************************************************)
\* call r has come back to its caller: with a result, or with an exception
Back(r) == pc[r] \in {"returned", "raised"}

\* analyzer.analyze_document(t) begins
Begin(r, t) ==
  /\ Fresh(r, NoFile, t, "direct", "validate")
  /\ UNCHANGED analyzer

\* a caller calls analyze_document; the callers take turns
Call(r) ==
  /\ \A q \in Reqs : Idle(q)
  /\ \E t \in Texts \cup ScanTexts : Begin(r, t)

\* the caller lets go of what it got
Drop(r) ==
  /\ Back(r)
  /\ Fresh(r, NoFile, << >>, "", "idle")
  /\ UNCHANGED analyzer

\* the texts of the concurrent callers
ConcTexts ==
  { Lines(ScenarioLines),
    Lines(<< BothScans >>),
    Lines(<< "short" >>) }

\* a caller calls analyze_document while other calls are running; it keeps what
\* it got until its next call
ConcCall(r) ==
  /\ Idle(r) \/ Back(r)
  /\ \E t \in ConcTexts : Begin(r, t)

Init ==
  /\ analyzer    = DocumentAnalyzer
  /\ pc          = [r \in Reqs |-> "idle"]
  /\ via         = [r \in Reqs |-> ""]
  /\ file        = [r \in Reqs |-> NoFile]
  /\ arg         = [r \in Reqs |-> << >>]
  /\ text_of     = [r \in Reqs |-> << >>]
  /\ doc_of      = [r \in Reqs |-> NoDoc]
  /\ results_of  = [r \in Reqs |-> << >>]
  /\ ret         = [r \in Reqs |-> NoReturn]
  /\ exc         = [r \in Reqs |-> NoException]
  /\ response    = [r \in Reqs |-> NoResponse]
  /\ called      = [r \in Reqs |-> {}]

Next ==
  \E r \in Reqs :
     \/ Receive(r)
     \/ CheckFilename(r)
     \/ ReadFile(r)
     \/ ExtractText(r)
     \/ Analyze(r)
     \/ Respond(r)
     \/ HandleException(r)
     \/ Finish(r)

\* the server: requests through the handler
Spec == Init /\ [][Next]_vars

NextCalls ==
  \E r \in Reqs :
     \/ Call(r)
     \/ Analyze(r)
     \/ Drop(r)

\* analyze_document called directly, one call at a time
SpecCalls == Init /\ [][NextCalls]_vars

NextConc ==
  \E r \in Reqs :
     \/ ConcCall(r)
     \/ Analyze(r)

\* analyze_document called directly by callers that run concurrently
SpecConc == Init /\ [][NextConc]_vars

(***************************************************************************)
(* Properties of analyze_document and of the extractors                    *)
(***************************************************************************)
\* call r stands after the validation, inside analyze_document
Running(r) ==
  pc[r] \in {"truncate", "nlp", "case_info", "tax_amounts", "dates", "legal_refs",
             "other", "return"}

\* C1: analyze_document raises a ValueError and returns nothing when its text is
\* empty or has a stripped length under 100, and for every other text returns a
\* mapping with exactly the keys case_info, tax_amounts, dates, legal_refs, other;
\* a text that is rejected is never analysed.
C1_ValueErrorOrFiveKeys ==
  \A r \in Reqs :
     LET invalid == text_len(arg[r]) = 0 \/ text_strip_len(arg[r]) < 100
     IN  /\ Running(r) => ~invalid
         /\ Back(r) =>
              IF invalid
                THEN /\ pc[r] = "raised"
                     /\ ret[r].kind = "raised"
                     /\ ret[r].exc.type = "ValueError"
                     /\ ret[r].value = << >>
                ELSE /\ pc[r] = "returned"
                     /\ ret[r].kind = "result"
                     /\ DOMAIN ret[r].value = CategoryKeys

\* a text of 99 characters between its blanks has been rejected
C1_Witness ==
  \E r \in Reqs :
     /\ pc[r] = "raised"
     /\ text_strip_len(arg[r]) = 99
     /\ text_len(arg[r]) > 100
     /\ ret[r].exc = ValueError("Document text is too short or empty")

\* the most items a category gives
Caps ==
  [case_info |-> 15, tax_amounts |-> 20, dates |-> 20, legal_refs |-> 25, other |-> 15]

\* what makes two items of a category the same item: the pair for case_info, the
\* content for the others
DedupKey(key, item) == IF key = "case_info" THEN item ELSE item[2]

\* C2: each of the five category outputs holds no two items with the same dedup
\* key ((heading, content) for case_info, content for the others) and no more
\* items than its cap (15, 20, 20, 25, 15).
C2_NoDuplicateKeysWithinCaps ==
  \A r \in Reqs : \A key \in DOMAIN results_of[r] :
     LET items == results_of[r][key]
     IN  /\ Len(items) <= Caps[key]
         /\ \A i, j \in 1..Len(items) :
              i < j => DedupKey(key, items[i]) # DedupKey(key, items[j])

\* the text of many lines, one of them twice, has filled every category to its cap
C2_Witness ==
  \E r \in Reqs :
     /\ pc[r] = "returned"
     /\ arg[r] = Lines(ManyLines)
     /\ ManyLines[1] = ManyLines[2]
     /\ \A key \in CategoryKeys : Len(ret[r].value[key]) = Caps[key]

\* the candidates of a category, in the order the scans find them: the regex and
\* line scans first, the entity scan after them
Candidates(key, self, t, d) ==
  CASE key = "case_info" ->
         case_numbers(t) \o LineScan(first_lines(split_lines(t), 50), party_line)
           \o EntScan(d, court_ent)
    [] key = "tax_amounts" ->
         LineScan(split_lines(t), LAMBDA line : tax_line(self, line))
           \o EntScan(d, LAMBDA ent : money_ent(self, d, ent))
    [] key = "dates" ->
         LineScan(split_lines(t), LAMBDA line : date_line(self, line))
           \o EntScan(d, LAMBDA ent : date_ent(self, d, ent))
    [] key = "legal_refs" -> LineScan(split_lines(t), legal_line)
    [] key = "other" ->
         other_ents(d.ents, 1, Len(d.ents), LineScan(split_lines(t), key_point_line))

\* the candidates whose dedup key no earlier candidate has, in their order
FirstOccurrences(key, cands) ==
  LET kept == {i \in 1..Len(cands) :
                 \A j \in 1..(i - 1) : DedupKey(key, cands[j]) # DedupKey(key, cands[i])}
      nth(k) == CHOOSE i \in kept : Cardinality({j \in kept : j <= i}) = k
  IN  [k \in 1..Cardinality(kept) |-> cands[nth(k)]]

\* C3: every category's output is its candidate list (regex and line-scan
\* candidates in scan order, then entity candidates in entity order) without the
\* candidates whose dedup key occurred earlier, cut to the first cap items; so an
\* item keeps the heading of its first occurrence.
C3_FirstOccurrenceOrder ==
  \A r \in Reqs :
     pc[r] = "returned" =>
       \A key \in CategoryKeys :
          LET first == FirstOccurrences(
                         key, Candidates(key, DocumentAnalyzer, text_of[r], doc_of[r]))
          IN  ret[r].value[key] = SubSeq(first, 1, Min2(Caps[key], Len(first)))

\* a line both scans give: the line scan's heading is kept, the entity scan's
\* (Amount, Date) is dropped
C3_Witness ==
  \E r \in Reqs :
     /\ pc[r] = "returned"
     /\ arg[r] = Lines(<< BothScans >>)
     /\ money_ent(analyzer, doc_of[r], doc_of[r].ents[1]) = << <<"Amount", BothScans>> >>
     /\ date_ent(analyzer, doc_of[r], doc_of[r].ents[2]) = << <<"Date", BothScans>> >>
     /\ ret[r].value.tax_amounts = << <<"Refund", BothScans>> >>
     /\ ret[r].value.dates = << <<"Hearing Date", BothScans>> >>

\* two texts have the same first max_length characters
SamePrefix(s, t) == text_prefix(s, max_length) = text_prefix(t, max_length)

\* the text passes the validation of line 325
Valid(t) == text_len(t) > 0 /\ text_strip_len(t) >= 100

\* C4 as claimed: two texts of more than 1,000,000 characters with the same first
\* 1,000,000 characters have the same outcome of analyze_document (the same
\* result, or a validation error for both).
C4_SamePrefixSameOutcome ==
  \A r \in Reqs : \A t \in Texts :
     (/\ Back(r)
      /\ text_len(arg[r]) > max_length
      /\ text_len(t) > max_length
      /\ SamePrefix(arg[r], t))
       => ret[r] = analyze_document(DocumentAnalyzer, t)

\* C4, amended: two texts of more than 1,000,000 characters with the same first
\* 1,000,000 characters have the same outcome when both pass the validation or
\* both fail it; the validation reads the whole text, so the characters after
\* the first 1,000,000 decide between an error and a result.
C4_SamePrefixSameOutcomeWhenBothValid ==
  \A r \in Reqs : \A t \in Texts :
     (/\ Back(r)
      /\ text_len(arg[r]) > max_length
      /\ text_len(t) > max_length
      /\ SamePrefix(arg[r], t)
      /\ Valid(arg[r]) <=> Valid(t))
       => ret[r] = analyze_document(DocumentAnalyzer, t)

\* a long text has come back with the result of another long text that differs
\* from it after the first 1,000,000 characters
C4_Witness ==
  \E r \in Reqs :
     /\ pc[r] = "returned"
     /\ arg[r] = Long(ScenarioLines, TailA, 0)
     /\ SamePrefix(arg[r], Long(ScenarioLines, TailB, 0))
     /\ ret[r] = analyze_document(DocumentAnalyzer, Long(ScenarioLines, TailB, 0))
     /\ ret[r].value.tax_amounts # << >>

\* the words of a string
StringWords(s) == {line_tokens(s, 0)[k].text : k \in 1..Len(line_tokens(s, 0))}

\* the words of a text
Words(t) == UNION {StringWords(t[i].line) : i \in 1..Len(t)}

\* the words of a text that stand only after its first max_length characters
WordsOnlyAfter(t) == Words(t) \ Words(text_prefix(t, max_length))

\* C5: when analyze_document succeeds on a text of more than 1,000,000
\* characters, the recognizer and the extractors run on its first 1,000,000
\* characters only, and no item's content holds a word that the text has only
\* after character 1,000,000.
C5_NothingFromBeyondTheLimit ==
  \A r \in Reqs :
     /\ pc[r] \in {"nlp", "case_info", "tax_amounts", "dates", "legal_refs", "other",
                   "return", "returned"}
          => /\ text_len(text_of[r]) <= max_length
             /\ text_of[r] = text_prefix(arg[r], max_length)
     /\ (pc[r] = "returned" /\ text_len(arg[r]) > max_length)
          => \A key \in CategoryKeys : \A k \in 1..Len(ret[r].value[key]) :
                StringWords(ret[r].value[key][k][2]) \cap WordsOnlyAfter(arg[r]) = {}

\* a text cut in the middle of a line of its tail: the part before the cut gives
\* an item, the words after it give none
C5_Witness ==
  \E r \in Reqs :
     /\ pc[r] = "returned"
     /\ arg[r] = Long(ScenarioLines, TailA, 16)
     /\ {"owed", "2031-after", "Mr.Late"} \subseteq WordsOnlyAfter(arg[r])
     /\ \E k \in 1..Len(ret[r].value.tax_amounts) :
           ret[r].value.tax_amounts[k] = <<"Interest", "Interest of $77">>

\* the contents of a list of items
Contents(items) == {items[k][2] : k \in 1..Len(items)}

\* the categories filled by a scan of the lines with a length check
LineScanKeys == {"tax_amounts", "dates", "legal_refs"}

\* the contents the entity scan of a category gives
EntityContents(key, self, d) ==
  CASE key = "tax_amounts" -> Contents(EntScan(d, LAMBDA ent : money_ent(self, d, ent)))
    [] key = "dates"       -> Contents(EntScan(d, LAMBDA ent : date_ent(self, d, ent)))
    [] OTHER               -> {}

\* the line holds what the line scan of the category looks for
Matches(key, self, line) ==
  CASE key = "tax_amounts" -> AnyIn(self.tax_keywords, lower(line)) /\ money_patterns(line)
    [] key = "dates"       -> AnyIn(self.date_keywords, lower(line)) /\ date_patterns(line)
    [] key = "legal_refs"  -> legal_heading(line) # ""

\* C9 as claimed: a line whose trimmed length is 10 or less, or 200 or more, gives
\* no line-scan item in tax_amounts, dates or legal_refs.
C9_OnlyLinesStrictlyBetween10And200 ==
  \A r \in Reqs :
     pc[r] = "returned" =>
       \A key \in LineScanKeys : \A i \in 1..Len(split_lines(text_of[r])) :
          LET c == strip(split_lines(text_of[r])[i].line)
          IN  ((Len(c) <= 10 \/ Len(c) >= 200)
                 /\ c \notin EntityContents(key, DocumentAnalyzer, doc_of[r]))
                => c \notin Contents(ret[r].value[key])

\* C9, amended: a line whose trimmed length is less than 10 or more than 200 gives
\* no line-scan item in tax_amounts, dates or legal_refs; a line of trimmed
\* length exactly 10 or exactly 200 is scanned like the lines between, and
\* gives its item when it holds what the category looks for.
C9_OnlyLinesFrom10To200 ==
  \A r \in Reqs :
     pc[r] = "returned" =>
       \A key \in LineScanKeys : \A i \in 1..Len(split_lines(text_of[r])) :
          LET line == split_lines(text_of[r])[i].line
              c    == strip(line)
          IN  /\ ((Len(c) < 10 \/ Len(c) > 200)
                    /\ c \notin EntityContents(key, DocumentAnalyzer, doc_of[r]))
                   => c \notin Contents(ret[r].value[key])
              /\ (Len(c) \in {10, 200}
                    /\ Matches(key, DocumentAnalyzer, line)
                    /\ Len(ret[r].value[key]) < Caps[key])
                   => c \in Contents(ret[r].value[key])

\* lines of trimmed length 10 and 200 have given items
C9_Witness ==
  \E r \in Reqs :
     /\ pc[r] = "returned"
     /\ arg[r] = Lines(LimitLines)
     /\ Len(strip(LimitLines[1])) = 10
     /\ Len(strip(LimitLines[2])) = 200
     /\ ret[r].value.tax_amounts =
          << <<"Amount", strip(LimitLines[1])>>, <<"Amount", strip(LimitLines[2])>> >>
     /\ ret[r].value.legal_refs =
          << <<"Section", strip(LimitLines[3])>>, <<"Section", strip(LimitLines[4])>> >>
     /\ ret[r].value.dates = << <<"Date", strip(LimitLines[5])>> >>

\* the headings of the tax lines, first match first: the words looked for, and
\* the heading they give
TaxPriority ==
  << << {"penalty", "penalties"},     "Penalty" >>,
     << {"interest"},                 "Interest" >>,
     << {"unpaid", "owed", "due"},    "Amount Due" >>,
     << {"refund"},                   "Refund" >>,
     << {"assessment"},               "Assessment" >>,
     << {"payment"},                  "Payment" >>,
     << {"liability"},                "Liability" >>,
     << {"deficiency"},               "Deficiency" >> >>

\* the heading of the first entry of TaxPriority with a word in the line
PriorityHeading(line_lower) ==
  LET hits == {k \in 1..Len(TaxPriority) :
                 \E w \in TaxPriority[k][1] : Contains(line_lower, w)}
  IN  IF hits = {} THEN "Amount"
      ELSE TaxPriority[CHOOSE k \in hits : \A j \in hits : k <= j][2]

\* C10: in the tax line scan a line gives an item only if it holds a tax keyword
\* and matches a money pattern; the item's heading is the first match in the
\* order penalty/penalties, interest, unpaid/owed/due, refund, assessment,
\* payment, liability, deficiency, else Amount, and its content the trimmed line.
C10_TaxLineHeadingByPriority ==
  \A r \in Reqs :
     pc[r] = "returned" =>
       \A i \in 1..Len(split_lines(text_of[r])) :
          LET line     == split_lines(text_of[r])[i].line
              c        == strip(line)
              items    == ret[r].value.tax_amounts
              eligible == /\ \E k \in 1..Len(DocumentAnalyzer.tax_keywords) :
                               Contains(lower(line), DocumentAnalyzer.tax_keywords[k])
                          /\ money_patterns(line)
          IN  /\ c \notin EntityContents("tax_amounts", DocumentAnalyzer, doc_of[r])
                   => \A k \in 1..Len(items) :
                         items[k][2] = c
                           => eligible /\ items[k][1] = PriorityHeading(lower(line))
              /\ (eligible /\ Len(c) >= 10 /\ Len(c) <= 200 /\ Len(items) < Caps.tax_amounts)
                   => \E k \in 1..Len(items) :
                         items[k] = <<PriorityHeading(lower(line)), c>>

\* a line with 'due' before 'penalty' has the heading Penalty
C10_Witness ==
  \E r \in Reqs :
     /\ pc[r] = "returned"
     /\ arg[r] = Document(<< "due and penalty of $5" >>)
     /\ ret[r].value.tax_amounts[1] = <<"Penalty", "due and penalty of $5">>

\* the headings of the date lines, first match first: the wordings looked for,
\* and the heading they give
DatePriority ==
  << << {"deadline"},                 "Deadline" >>,
     << {"due date", "filing date"},  "Filing Date" >>,
     << {"hearing"},                  "Hearing Date" >>,
     << {"trial"},                    "Trial Date" >>,
     << {"effective"},                "Effective Date" >>,
     << {"tax year", "taxable year"}, "Tax Year" >> >>

\* the heading of the first entry of DatePriority with a wording in the line
DatePriorityHeading(line_lower) ==
  LET hits == {k \in 1..Len(DatePriority) :
                 \E w \in DatePriority[k][1] : Contains(line_lower, w)}
  IN  IF hits = {} THEN "Date"
      ELSE DatePriority[CHOOSE k \in hits : \A j \in hits : k <= j][2]

\* C11: in the dates line scan a line gives an item only if it holds a date
\* keyword and matches a date pattern; the item's heading is the first match in
\* the order deadline, due date/filing date, hearing, trial, effective, tax
\* year/taxable year, else Date, and its content the trimmed line.
C11_DateLineHeadingByPriority ==
  \A r \in Reqs :
     pc[r] = "returned" =>
       \A i \in 1..Len(split_lines(text_of[r])) :
          LET line     == split_lines(text_of[r])[i].line
              c        == strip(line)
              items    == ret[r].value.dates
              eligible == /\ \E k \in 1..Len(DocumentAnalyzer.date_keywords) :
                               Contains(lower(line), DocumentAnalyzer.date_keywords[k])
                          /\ date_patterns(line)
          IN  /\ c \notin EntityContents("dates", DocumentAnalyzer, doc_of[r])
                   => \A k \in 1..Len(items) :
                         items[k][2] = c
                           => eligible /\ items[k][1] = DatePriorityHeading(lower(line))
              /\ (eligible /\ Len(c) >= 10 /\ Len(c) <= 200 /\ Len(items) < Caps.dates)
                   => \E k \in 1..Len(items) :
                         items[k] = <<DatePriorityHeading(lower(line)), c>>

\* the line of the scenario, with 'Filing' before 'deadline', has the heading
\* Deadline, and so has a line with 'filing date' before 'deadline'
C11_Witness ==
  \E r \in Reqs :
     /\ pc[r] = "returned"
     /\ arg[r] = Document(<< "filing date and deadline on 1-2-24" >>)
     /\ ret[r].value.dates[1] = <<"Deadline", "filing date and deadline on 1-2-24">>
     /\ analyze_document(DocumentAnalyzer, Lines(ScenarioLines)).value.dates[1]
          = <<"Deadline", "Filing deadline: 04/15/2024">>

\* the roles of the party scan, first match first, and their headings
Roles ==
  << <<"plaintiff", "Plaintiff">>, <<"defendant", "Defendant">>,
     <<"petitioner", "Petitioner">>, <<"respondent", "Respondent">> >>

RoleHeadings == {Roles[k][2] : k \in 1..Len(Roles)}

\* the heading of the first role the line holds, "" when it holds none
FirstRole(line) ==
  LET hits == {k \in 1..Len(Roles) : Contains(lower(line), Roles[k][1])}
  IN  IF hits = {} THEN "" ELSE Roles[CHOOSE k \in hits : \A j \in hits : k <= j][2]

\* c is the party content of the line: the trimmed text after the first ':' of
\* the trimmed line, or the whole trimmed line when it holds no ':'
IsPartyContent(c, line) ==
  LET t == strip(line)
  IN  IF \E i \in 1..Len(t) : At(t, i) = ":"
        THEN \E i \in 1..Len(t) :
                /\ At(t, i) = ":"
                /\ \A j \in 1..(i - 1) : At(t, j) # ":"
                /\ c = strip(SubSeq(t, i + 1, Len(t)))
        ELSE c = t

\* the index (from 0) of the first of the lines that run j of a run-length
\* encoded list stands for
FirstIndex(lines, j) == Sum([k \in 1..Len(lines) |-> lines[k].n], 1, j - 1)

\* the line is one the party scan takes an item from
PartyLine(line) ==
  FirstRole(line) # "" /\ Len(strip(line)) > 5 /\ Len(strip(line)) < 100

\* C12: the party scan looks only at the first 50 lines; a line gives at most one
\* party item, and only if its trimmed length is strictly between 5 and 100; the
\* role is the first of plaintiff, defendant, petitioner, respondent the line
\* holds in any case, the content the trimmed text after the first ':' or,
\* without a colon, the trimmed line; a line of index 50 or more gives none.
C12_PartiesOfFirst50Lines ==
  \A r \in Reqs :
     pc[r] = "returned" =>
       LET lines == split_lines(text_of[r])
           early == {j \in 1..Len(lines) : FirstIndex(lines, j) < 50}
           items == ret[r].value.case_info
           party == {k \in 1..Len(items) : items[k][1] \in RoleHeadings}
       IN  /\ \A k \in party :
                \E j \in early :
                   /\ PartyLine(lines[j].line)
                   /\ items[k][1] = FirstRole(lines[j].line)
                   /\ IsPartyContent(items[k][2], lines[j].line)
           /\ \A j \in early :
                LET line == lines[j].line
                    \* the party items with this line's content that no other
                    \* party line of the first 50 accounts for
                    from == {k \in party :
                               /\ IsPartyContent(items[k][2], line)
                               /\ ~ \E i \in early :
                                      /\ lines[i].line # line
                                      /\ PartyLine(lines[i].line)
                                      /\ IsPartyContent(items[k][2], lines[i].line)}
                IN  /\ Cardinality(from) <= 1
                    /\ \A k \in from : PartyLine(line) /\ items[k][1] = FirstRole(line)
                    /\ (PartyLine(line) /\ Len(items) < Caps.case_info)
                         => \E k \in party :
                               /\ items[k][1] = FirstRole(line)
                               /\ IsPartyContent(items[k][2], line)

\* the 50th line of a text has given its party, the 51st has not; a line of
\* trimmed length 99 has given one and a line with two roles the first of them
C12_Witness ==
  \E r \in Reqs :
     /\ pc[r] = "returned"
     /\ Len(arg[r]) = 3 /\ arg[r][1].nl = 49
     /\ arg[r][3].line = "Defendant: B"
     /\ ret[r].value.case_info = << <<"Plaintiff", "A">> >>
     /\ analyze_document(DocumentAnalyzer,
                         Document(<< Padded("Plaintiff: A", 99) >>)).value.case_info
          = << <<"Plaintiff", "A" \o StrTimes("x", 87)>> >>
     /\ analyze_document(DocumentAnalyzer,
                         Document(<< Padded("Plaintiff: A", 100) >>)).value.case_info
          = << >>
     /\ analyze_document(DocumentAnalyzer,
                         Document(<< "Respondent and DEFENDANT: Mr.X" >>)).value.case_info
          = << <<"Defendant", "Mr.X">> >>

\* the Key Point items of the line scan of extract_other_details
KeyPoints(t) == LineScan(split_lines(t), key_point_line)

\* what the entities would give with no limit: a Person item for every PERSON, an
\* Organization item for every ORG without 'court', in entity order
PersonsAndOrganizations(d) ==
  EntScan(d, LAMBDA ent :
               IF ent.label_ = "PERSON" THEN << <<"Person", ent.text>> >>
               ELSE IF ent.label_ = "ORG" /\ ~Contains(lower(ent.text), "court")
                 THEN << <<"Organization", ent.text>> >>
               ELSE << >>)

\* the "other" output when the entity step adds the first n of its items
OtherWithFirst(t, d, n) ==
  LET ents  == PersonsAndOrganizations(d)
      first == FirstOccurrences("other",
                                KeyPoints(t) \o SubSeq(ents, 1, Min2(Max2(n, 0), Len(ents))))
  IN  SubSeq(first, 1, Min2(Caps.other, Len(first)))

\* C13 as claimed: the entity step of extract_other_details adds a Person item
\* for each PERSON and an Organization item for each ORG without 'court' until
\* it has itself added 30 items, however many Key Point items the line scan gave.
C13_EntityStepAddsUpTo30 ==
  \A r \in Reqs :
     pc[r] = "returned" => ret[r].value.other = OtherWithFirst(text_of[r], doc_of[r], 30)

\* C13: the entity step of extract_other_details adds a Person item for each
\* PERSON and an Organization item for each ORG without 'court' only while the
\* list, Key Point items included, holds fewer than 30 items: after K Key Point
\* items it adds the first 30 - K of its items (none when K >= 30), before the
\* duplicates are removed and the result is cut to 15.
C13_EntityStepFillsListTo30 ==
  \A r \in Reqs :
     pc[r] = "returned" =>
       ret[r].value.other
         = OtherWithFirst(text_of[r], doc_of[r], 30 - Len(KeyPoints(text_of[r])))

\* after 30 equal Key Point lines the persons and the company of the text are
\* left out, after 29 the first person alone is added
C13_Witness ==
  \E r \in Reqs :
     /\ pc[r] = "returned"
     /\ Len(KeyPoints(text_of[r])) = 30
     /\ Len(PersonsAndOrganizations(doc_of[r])) = 3
     /\ ret[r].value.other = << <<"Key Point", "1. The taxpayer filed the return">> >>
     /\ analyze_document(
          DocumentAnalyzer,
          Document([i \in 1..29 |-> "1. The taxpayer filed the return"]
                     \o << "seen by Mr.Jones and Mr.Brown of Acme Inc." >>)).value.other
          = << <<"Key Point", "1. The taxpayer filed the return">>,
               <<"Person", "Mr.Jones">> >>

\* The identifiers that follow the occurrences of the label of a case pattern,
\* as items, from left to right.  An occurrence is the label's words, an
\* optional '.' or ':' and blanks, and the identifier; one that begins inside an
\* occurrence counted before it is part of that one and not counted.
LabelledBy(t, pat) ==
  LET starts == Flatten([i \in 1..Len(t) |-> case_starts(t, i, pat.first)], 1, Len(t))
      m      == [n \in 1..Len(starts) |->
                   case_match_at(t, starts[n][1], starts[n][2],
                                 pat.first, pat.second, pat.dot)]
      counted == CHOOSE A \in SUBSET (1..Len(starts)) :
                   \A n \in 1..Len(starts) :
                      n \in A <=> /\ m[n].ok
                                  /\ \A k \in A :
                                       k < n => ~PosBefore(starts[n], m[k].end)
  IN  Flatten([n \in 1..Len(starts) |->
                 IF n \in counted THEN << <<"Case Number", m[n].group>> >> ELSE << >>],
              1, Len(starts))

\* the identifiers that follow the labels of the text, label by label
Labelled(t) ==
  Flatten([k \in 1..Len(case_patterns) |-> LabelledBy(t, case_patterns[k])],
          1, Len(case_patterns))

\* the items of the list with the heading
WithHeading(items, heading) ==
  LET at == {k \in 1..Len(items) : items[k][1] = heading}
      nth(n) == CHOOSE k \in at : Cardinality({j \in at : j <= k}) = n
  IN  [n \in 1..Cardinality(at) |-> items[nth(n)]]

\* C14: the case-number scan runs over the whole text, and each occurrence of a
\* label 'Case No.', 'Docket No.' or 'Case Number' followed by an identifier
\* gives exactly one candidate, ('Case Number', the identifier after the label,
\* an optional ':' or '.' and blanks); the Case Number items of case_info are
\* these candidates without repetitions, within the cap.
C14_OneItemPerLabel ==
  \A r \in Reqs :
     pc[r] = "returned" =>
       LET first == FirstOccurrences("case_info", Labelled(text_of[r]))
       IN  WithHeading(ret[r].value.case_info, "Case Number")
             = SubSeq(first, 1, Min2(Caps.case_info, Len(first)))

\* a label after the 50th line has given its identifier; the two scenario lines
\* give one item each and a line with two labels gives two
C14_Witness ==
  \E r \in Reqs :
     /\ pc[r] = "returned"
     /\ Len(arg[r]) = 2 /\ arg[r][1].nl = 60
     /\ arg[r][2].line = "Docket No. 77-A"
     /\ ret[r].value.case_info = << <<"Case Number", "77-A">> >>
     /\ \A line \in { "Case No.: 2024-TX-00123", "Case Number: 2024-TX-00123" } :
          analyze_document(DocumentAnalyzer, Document(<< line >>)).value.case_info
            = << <<"Case Number", "2024-TX-00123">> >>
     /\ analyze_document(DocumentAnalyzer,
                         Document(<< "Case No. 1 and Case No. 2" >>)).value.case_info
          = << <<"Case Number", "1">>, <<"Case Number", "2">> >>

\* the headings of legal_patterns in their order, and which of them match a line
LegalPriority ==
  << "Section", "USC Reference", "IRC Section", "CFR Reference", "Title Reference",
     "Public Law" >>

LegalMatches(line) ==
  << legal_section(line), legal_usc(line), legal_irc(line), legal_cfr(line),
     legal_title(line), legal_public_law(line) >>

\* the heading of the earliest pattern in the order that matches, "" when none does
LegalPriorityHeading(line) ==
  LET hits == {k \in 1..Len(LegalPriority) : LegalMatches(line)[k]}
  IN  IF hits = {} THEN ""
      ELSE LegalPriority[CHOOSE k \in hits : \A j \in hits : k <= j]

C6_SameTextSameResult ==
  /\ analyzer = DocumentAnalyzer
  /\ \A r, q \in Reqs :
        (Back(r) /\ Back(q) /\ arg[r] = arg[q]) => ret[r] = ret[q]

\* two callers hold the result of the same text, and it is not empty
C6_Witness ==
  \E r, q \in Reqs :
     /\ r # q
     /\ pc[r] = "returned" /\ pc[q] = "returned"
     /\ arg[r] = Lines(ScenarioLines) /\ arg[q] = arg[r]
     /\ ret[r] = ret[q]
     /\ \A key \in CategoryKeys : ret[r].value[key] # << >>

\* what each text of the concurrent callers gives when analysed alone: the pairs
\* of a text and its outcome
Alone == {<<t, analyze_document(DocumentAnalyzer, t)>> : t \in ConcTexts}

\* C7: analyses that run concurrently on the shared instance do not interfere:
\* under every interleaving of their steps each category a call has filled, and
\* what the call comes back with, is what the call gives when run alone.
C7_ConcurrentAsAlone ==
  \A r \in Reqs :
     /\ (Running(r) \/ pc[r] = "returned")
          => \E run \in Alone :
                /\ run[1] = arg[r]
                /\ \A key \in DOMAIN results_of[r] : results_of[r][key] = run[2].value[key]
     /\ Back(r) => <<arg[r], ret[r]>> \in Alone

\* two calls on different texts are both in the middle of their extractors
C7_Witness ==
  \E r, q \in Reqs :
     /\ pc[r] = "legal_refs" /\ pc[q] = "dates"
     /\ arg[r] = Lines(ScenarioLines) /\ arg[q] = Lines(<< BothScans >>)
     /\ DOMAIN results_of[r] = {"case_info", "tax_amounts", "dates"}
     /\ DOMAIN results_of[q] = {"case_info", "tax_amounts"}
     /\ results_of[r].tax_amounts # results_of[q].tax_amounts

(***************************************************************************)
(* Properties of the POST /analyze handler                                 *)
(***************************************************************************)
\* C8 as claimed: an upload whose file name is missing or ends neither in .pdf
\* nor in .docx (in any case) is answered with status 400 and the detail "Only
\* PDF and DOCX files are supported", and neither extract_text_from_pdf nor
\* extract_text_from_docx nor analyze_document has been called.
C8_UnsupportedRejectedWith400 ==
  \A r \in Reqs :
     (/\ pc[r] = "done"
      /\ \/ file[r].filename = ""
         \/ ~(endswith(lower(file[r].filename), ".pdf")
                \/ endswith(lower(file[r].filename), ".docx")))
       => /\ called[r] = {}
          /\ response[r].status = 400
          /\ response[r].detail = "Only PDF and DOCX files are supported"

\* what the handler answers to such an upload
C8_Witness ==
  \E r \in Reqs :
     /\ pc[r] = "done"
     /\ file[r].filename = "notes.txt"
     /\ called[r] = {}
     /\ response[r].status = 500
     /\ response[r].detail
          = "Error processing document: 400: Only PDF and DOCX files are supported"

====
